---- MODULE Spec2Model ----
(***************************************************************************)
(* Audio player with visualiser: the Web Audio graph module                *)
(* (utils/audioContext.js, kept in src/unnamed/part_001), the Visualizer   *)
(* component and the AudioPlayer component, each as a state machine over   *)
(* the platform objects it drives (AudioContext, audio nodes, the media    *)
(* element's one-time tap, requestAnimationFrame).                         *)
(***************************************************************************)
EXTENDS Integers, Sequences, FiniteSets, TLC

\* ------------------------------------------------------------------ bounds
MaxCtx == 2
MaxNodes == 5
MaxBufs == 2
MaxVisCtx == 2
MaxHandles == 3
MaxPending == 2
MaxTimers == 1
MaxUpdates == 1

\* ------------------------------------------------------- program constants
NumTracks == 5
FftSize == 256
DefaultThreshold == 200

\* ------------------------------------------------------------ value spaces
Elems == {"e1", "e2"}
NoElem == "none"
NoCtx == 0
NoNode == [kind |-> "none", id |-> 0, ctx |-> 0, elem |-> NoElem]
NoBuf == [id |-> 0, written |-> FALSE]
Node(k, i, c, e) == [kind |-> k, id |-> i, ctx |-> c, elem |-> e]
Destination(c) == Node("destination", 0, c, NoElem)
Edge(a, b) == [from |-> a, to |-> b]

VARIABLES
  \* utils/audioContext.js module-level state
  audioContext, analyser, dataArray, source, gainNode,
  \* platform state behind it
  hasAudioContext,   \* window.AudioContext || window.webkitAudioContext exists
  ctxState,          \* AudioContext.state of every context created so far
  closing,           \* contexts on which close() has been called
  pendingClose,      \* cleanupAudioContext calls suspended at `await close()`
  pendingResume,     \* resume() promises not yet settled
  taps,              \* every MediaElementAudioSourceNode ever created
  edges,             \* connections of the audio graphs
  nextCtx, nextId, nextBuf,
  \* observation of the last operation
  lastOp,            \* [op, el, ret, threw, calls]
  retapped,          \* elements on which createMediaElementSource was called
                     \* while they already had a source node
  cleanRun,          \* consecutive cleanupAudioContext calls (capped at 2)
  \* components/Visualizer.jsx: one mounted instance, its refs and state, the
  \* props its host passes, and the platform objects it created
  vis,
  \* components/AudioPlayer.jsx: one mounted instance with its own <audio>
  \* element, its refs and state, and the platform objects it created
  player,
  \* App.jsx: the mounted App with its own <audio> element, its state and
  \* refs; it drives the graph module above
  app,
  \* the gain AudioParams: the value last set on each gain node, and the
  \* argument of the last setVolume call
  volume,
  \* the per-frame computations on a snapshot (band levels, beat detection,
  \* bar heights): the snapshot they worked on, their arguments and result
  calc

graphVars == <<audioContext, analyser, dataArray, source, gainNode,
               hasAudioContext, ctxState, closing, pendingClose, pendingResume,
               taps, edges, nextCtx, nextId, nextBuf, lastOp, retapped, cleanRun>>

moduleState == <<audioContext, analyser, dataArray, source, gainNode>>

vars == <<graphVars, vis, player, app, volume, calc>>

Op(o, e, r, t, cs) == [op |-> o, el |-> e, ret |-> r, threw |-> t, calls |-> cs]

\* ---------------------------------------------------------------- platform
\* createMediaElementSource throws InvalidStateError when the element already
\* has a MediaElementAudioSourceNode, on whatever context it was created.
Tapped(e) == \E s \in taps : s.elem = e

\* node.disconnect(): every outgoing connection of the node is removed
Disconnect(es, n) == {x \in es : x.from # n}

InitGraph ==
  /\ audioContext = NoCtx
  /\ analyser = NoNode
  /\ dataArray = NoBuf
  /\ source = NoNode
  /\ gainNode = NoNode
  /\ hasAudioContext \in BOOLEAN
  /\ ctxState = [c \in {} |-> "none"]
  /\ closing = {}
  /\ pendingClose = {}
  /\ pendingResume = {}
  /\ taps = {}
  /\ edges = {}
  /\ nextCtx = 1
  /\ nextId = 1
  /\ nextBuf = 1
  /\ lastOp = Op("none", NoElem, "none", FALSE, <<>>)
  /\ retapped = {}
  /\ cleanRun = 0

\* a.connect(b) throws InvalidAccessError when the two nodes belong to
\* different contexts; connecting an already connected pair changes nothing.
CanConnect(a, b) == a.ctx = b.ctx

\* Variant of ConnectChain that forgets analyser.connect(gainNode).
ConnectChain_NoGain(es, s, an, gn, c) ==
  [edges |-> es \cup (IF CanConnect(s, an) THEN {Edge(s, an)} ELSE {})
                \cup (IF CanConnect(gn, Destination(c)) THEN {Edge(gn, Destination(c))} ELSE {}),
   ok |-> CanConnect(s, an) /\ CanConnect(gn, Destination(c))]

\* source.connect(analyser); analyser.connect(gainNode);
\* gainNode.connect(audioContext.destination): the connections made up to the
\* first call that throws (part_001:303-305 and 352-354)
ConnectChain(es, s, an, gn, c) ==
  LET ok1 == CanConnect(s, an)
      ok2 == ok1 /\ CanConnect(an, gn)
      ok3 == ok2 /\ CanConnect(gn, Destination(c))
  IN [edges |-> es \cup (IF ok1 THEN {Edge(s, an)} ELSE {})
                   \cup (IF ok2 THEN {Edge(an, gn)} ELSE {})
                   \cup (IF ok3 THEN {Edge(gn, Destination(c))} ELSE {}),
      ok |-> ok3]

\* The nodes the first lines of initializeAudioContext / connectAnalyzer
\* create when missing (part_001:283-299 and 337-349), for a context that is
\* created in state st0 when there is none yet.
Ensure(st0) ==
  LET create == audioContext = NoCtx
      c == IF create THEN nextCtx ELSE audioContext
      mkAn == analyser = NoNode
      an == IF mkAn THEN Node("analyser", nextId, c, NoElem) ELSE analyser
      id1 == IF mkAn THEN nextId + 1 ELSE nextId
      mkGn == gainNode = NoNode
      gn == IF mkGn THEN Node("gain", id1, c, NoElem) ELSE gainNode
      id2 == IF mkGn THEN id1 + 1 ELSE id1
  IN [create |-> create, ctx |-> c,
      states |-> IF create THEN ctxState @@ (c :> st0) ELSE ctxState,
      an |-> an, gn |-> gn, id |-> id2]

StartStates == IF audioContext = NoCtx THEN {"suspended", "running"} ELSE {"kept"}

\* Variant of Unsupported without the try/catch: the TypeError escapes.
Unsupported_Throws(el) ==
  /\ lastOp' = Op("initializeAudioContext", el, "none", TRUE, <<>>)
  /\ cleanRun' = 0
  /\ UNCHANGED <<moduleState, hasAudioContext, ctxState, closing, pendingClose,
                 pendingResume, taps, edges, nextCtx, nextId, nextBuf, retapped>>

\* part_001:284 and 318-327: without a constructor `new (undefined)()`
\* throws TypeError before anything is created; the catch returns the
\* failure object
Unsupported(el) ==
  /\ lastOp' = Op("initializeAudioContext", el, "failed", FALSE, <<>>)
  /\ cleanRun' = 0
  /\ UNCHANGED <<moduleState, hasAudioContext, ctxState, closing, pendingClose,
                 pendingResume, taps, edges, nextCtx, nextId, nextBuf, retapped>>

\* part_001:281-329: one call, as any caller makes it
initializeAudioContextCall(el) ==
  /\ IF audioContext = NoCtx /\ ~hasAudioContext
     THEN Unsupported(el)
     ELSE \E st0 \in StartStates :
          LET n == Ensure(st0)
              c == n.ctx
              doResume == n.states[c] = "suspended"
              wantTap == source = NoNode /\ el # NoElem
              tapThrows == wantTap /\ Tapped(el)
              src == Node("source", n.id, c, el)
              tapMade == wantTap /\ ~tapThrows
              chain == ConnectChain(edges, src, n.an, n.gn, c)
              failed == tapThrows \/ (tapMade /\ ~chain.ok)
              id3 == IF tapMade THEN n.id + 1 ELSE n.id
          IN /\ n.create => nextCtx <= MaxCtx
             /\ id3 <= MaxNodes + 1
             /\ ~failed => nextBuf <= MaxBufs
             /\ audioContext' = c
             /\ ctxState' = n.states
             /\ nextCtx' = IF n.create THEN nextCtx + 1 ELSE nextCtx
             /\ pendingResume' = IF doResume
                                 THEN pendingResume \cup {[ctx |-> c, by |-> "initializeAudioContext"]}
                                 ELSE pendingResume
             /\ analyser' = n.an
             /\ gainNode' = n.gn
             /\ source' = IF tapMade THEN src ELSE source
             /\ taps' = IF tapMade THEN taps \cup {src} ELSE taps
             /\ retapped' = IF tapThrows THEN retapped \cup {el} ELSE retapped
             /\ edges' = IF tapMade THEN chain.edges ELSE edges
             /\ nextId' = id3
             /\ dataArray' = IF failed THEN dataArray ELSE [id |-> nextBuf, written |-> FALSE]
             /\ nextBuf' = IF failed THEN nextBuf ELSE nextBuf + 1
             /\ lastOp' = Op("initializeAudioContext", el,
                             IF failed THEN "failed" ELSE "initialized", FALSE, <<>>)
             /\ cleanRun' = 0
             /\ UNCHANGED <<hasAudioContext, closing, pendingClose>>

\* initializeAudioContext called on the module directly
initializeAudioContext(el) ==
  /\ UNCHANGED <<vis, player, app, volume, calc>>
  /\ initializeAudioContextCall(el)

\* part_001:336-358; nothing in it catches, so every exception escapes
connectAnalyzer(el) ==
  /\ UNCHANGED <<vis, player, app, volume, calc>>
  /\ IF audioContext = NoCtx /\ ~hasAudioContext
     THEN /\ lastOp' = Op("connectAnalyzer", el, "none", TRUE, <<>>)
          /\ cleanRun' = 0
          /\ UNCHANGED <<moduleState, hasAudioContext, ctxState, closing, pendingClose,
                         pendingResume, taps, edges, nextCtx, nextId, nextBuf, retapped>>
     ELSE \E st0 \in StartStates :
          LET n == Ensure(st0)
              c == n.ctx
              tapThrows == el = NoElem \/ Tapped(el)
              newSource == Node("source", n.id, c, el)
              chain == ConnectChain(edges, newSource, n.an, n.gn, c)
              threw == tapThrows \/ ~chain.ok
              id3 == IF tapThrows THEN n.id ELSE n.id + 1
          IN /\ n.create => nextCtx <= MaxCtx
             /\ id3 <= MaxNodes + 1
             /\ audioContext' = c
             /\ ctxState' = n.states
             /\ nextCtx' = IF n.create THEN nextCtx + 1 ELSE nextCtx
             /\ analyser' = n.an
             /\ gainNode' = n.gn
             /\ taps' = IF tapThrows THEN taps ELSE taps \cup {newSource}
             /\ retapped' = IF el # NoElem /\ Tapped(el) THEN retapped \cup {el} ELSE retapped
             /\ edges' = IF tapThrows THEN edges ELSE chain.edges
             /\ source' = IF threw THEN source ELSE newSource
             /\ nextId' = id3
             /\ lastOp' = Op("connectAnalyzer", el,
                             IF threw THEN "none" ELSE "analyser", threw, <<>>)
             /\ cleanRun' = 0
             /\ UNCHANGED <<dataArray, nextBuf, hasAudioContext, closing, pendingClose,
                            pendingResume>>

\* part_001:364 and 378: the guard both sampling functions start with
NotReady == analyser = NoNode \/ dataArray = NoBuf

\* part_001:363-372 and 377-386: the analyser fills dataArray in place
Sample(name) ==
  /\ UNCHANGED <<vis, player, app, volume, calc>>
  /\ /\ IF NotReady
        THEN /\ lastOp' = Op(name, NoElem, "null", FALSE, <<>>)
             /\ UNCHANGED dataArray
        ELSE /\ dataArray' = [dataArray EXCEPT !.written = TRUE]
             /\ lastOp' = Op(name, NoElem, "data", FALSE, <<>>)
     /\ UNCHANGED <<audioContext, analyser, source, gainNode, hasAudioContext, ctxState,
                    closing, pendingClose, pendingResume, taps, edges, nextCtx, nextId,
                    nextBuf, retapped, cleanRun>>

getFrequencyData == Sample("getFrequencyData")

getTimeDomainData == Sample("getTimeDomainData")

\* part_001:465-476: the three disconnects, in the order the code makes them
DisconnectCalls ==
  (IF source # NoNode THEN <<"source.disconnect">> ELSE <<>>)
  \o (IF analyser # NoNode THEN <<"analyser.disconnect">> ELSE <<>>)
  \o (IF gainNode # NoNode THEN <<"gainNode.disconnect">> ELSE <<>>)

\* Variant of ShouldClose without the `state !== 'closed'` test.
ShouldClose_NoStateTest == audioContext # NoCtx

\* part_001:477: the condition under which close() is called
ShouldClose == audioContext # NoCtx /\ ctxState[audioContext] # "closed"

\* part_001:463-485, up to the await. close() rejects on a context that was
\* closed before (the rejection is caught at line 482 and changes nothing);
\* otherwise the call suspends until the platform has closed the context.
\* Whether AudioContext.state already reads "closed" while the promise is
\* pending differs between browsers: both outcomes are drawn.
cleanupAudioContext ==
  /\ UNCHANGED <<vis, player, app, volume, calc>>
  /\ \E syncState \in BOOLEAN :
       LET rejects == ShouldClose /\ audioContext \in closing
           suspends == ShouldClose /\ ~rejects
       IN /\ syncState => suspends
          /\ source' = NoNode
          /\ analyser' = NoNode
          /\ gainNode' = NoNode
          /\ edges' = Disconnect(Disconnect(Disconnect(edges, source), analyser), gainNode)
          /\ closing' = IF suspends THEN closing \cup {audioContext} ELSE closing
          /\ pendingClose' = IF suspends THEN pendingClose \cup {audioContext} ELSE pendingClose
          /\ ctxState' = IF suspends /\ syncState
                         THEN [ctxState EXCEPT ![audioContext] = "closed"]
                         ELSE ctxState
          /\ dataArray' = IF ShouldClose THEN dataArray ELSE NoBuf
          /\ lastOp' = Op("cleanupAudioContext", NoElem,
                          IF suspends THEN "pending" ELSE "done", FALSE,
                          DisconnectCalls \o (IF ShouldClose THEN <<"close">> ELSE <<>>))
          /\ cleanRun' = IF cleanRun < 2 THEN cleanRun + 1 ELSE 2
          /\ UNCHANGED <<audioContext, hasAudioContext, pendingResume, taps, nextCtx,
                         nextId, nextBuf, retapped>>

\* Variant of cleanupResumed that forgets `dataArray = null`.
cleanupResumed_KeepsBuffer ==
  /\ UNCHANGED <<vis, player, app, volume, calc>>
  /\ \E c \in pendingClose :
       /\ ctxState' = [ctxState EXCEPT ![c] = "closed"]
       /\ pendingClose' = pendingClose \ {c}
       /\ audioContext' = NoCtx
       /\ lastOp' = Op("cleanupResumed", NoElem, "done", FALSE, <<>>)
       /\ UNCHANGED <<analyser, dataArray, source, gainNode, hasAudioContext, closing,
                      pendingResume, taps, edges, nextCtx, nextId, nextBuf, retapped,
                      cleanRun>>

\* part_001:479-481: what runs once the close() promise has resolved
cleanupResumed ==
  /\ UNCHANGED <<vis, player, app, volume, calc>>
  /\ \E c \in pendingClose :
       /\ ctxState' = [ctxState EXCEPT ![c] = "closed"]
       /\ pendingClose' = pendingClose \ {c}
       /\ audioContext' = NoCtx
       /\ dataArray' = NoBuf
       /\ lastOp' = Op("cleanupResumed", NoElem, "done", FALSE, <<>>)
       /\ UNCHANGED <<analyser, source, gainNode, hasAudioContext, closing, pendingResume,
                      taps, edges, nextCtx, nextId, nextBuf, retapped, cleanRun>>

\* part_001:502-513, up to the await
resumeAudioContext ==
  /\ UNCHANGED <<vis, player, app, volume, calc>>
  /\ /\ IF audioContext # NoCtx /\ ctxState[audioContext] = "suspended"
        THEN /\ pendingResume' = pendingResume \cup
                                   {[ctx |-> audioContext, by |-> "resumeAudioContext"]}
             /\ lastOp' = Op("resumeAudioContext", NoElem, "pending", FALSE, <<"resume">>)
        ELSE /\ lastOp' = Op("resumeAudioContext", NoElem, "true", FALSE, <<>>)
             /\ UNCHANGED pendingResume
     /\ UNCHANGED <<moduleState, hasAudioContext, ctxState, closing, pendingClose, taps,
                    edges, nextCtx, nextId, nextBuf, retapped, cleanRun>>

\* Variant of resumeResolved in which the context does not start running.
resumeResolved_StaysSuspended ==
  /\ UNCHANGED <<vis, player, app, volume, calc>>
  /\ \E p \in pendingResume :
       /\ p.ctx \notin closing
       /\ pendingResume' = pendingResume \ {p}
       /\ lastOp' = Op("resumeResolved", NoElem,
                       IF p.by = "resumeAudioContext" THEN "true" ELSE "none", FALSE, <<>>)
       /\ UNCHANGED <<moduleState, hasAudioContext, ctxState, closing, pendingClose, taps,
                      edges, nextCtx, nextId, nextBuf, retapped, cleanRun>>

\* The platform resolves a resume() promise: the context runs
\* (part_001:506 returns true to an awaiting resumeAudioContext).
resumeResolved ==
  /\ UNCHANGED <<vis, player, app, volume, calc>>
  /\ \E p \in pendingResume :
       /\ p.ctx \notin closing
       /\ ctxState' = [ctxState EXCEPT ![p.ctx] = "running"]
       /\ pendingResume' = pendingResume \ {p}
       /\ lastOp' = Op("resumeResolved", NoElem,
                       IF p.by = "resumeAudioContext" THEN "true" ELSE "none", FALSE, <<>>)
       /\ UNCHANGED <<moduleState, hasAudioContext, closing, pendingClose, taps, edges,
                      nextCtx, nextId, nextBuf, retapped, cleanRun>>

\* The platform rejects a resume() promise (no user gesture, context closed):
\* part_001:507-509 returns false; the promise of line 288 has no handler.
resumeRejected ==
  /\ UNCHANGED <<vis, player, app, volume, calc>>
  /\ \E p \in pendingResume :
       /\ pendingResume' = pendingResume \ {p}
       /\ lastOp' = Op("resumeRejected", NoElem,
                       IF p.by = "resumeAudioContext" THEN "false" ELSE "unhandled", FALSE, <<>>)
       /\ UNCHANGED <<moduleState, hasAudioContext, ctxState, closing, pendingClose, taps,
                      edges, nextCtx, nextId, nextBuf, retapped, cleanRun>>

\* ------------------------------------------------------------ Visualizer
VisTypes == {"bars", "circular", "waveform"}

\* State after the first render and its effects, with the default props
\* (Visualizer.jsx:5-18): nothing is playing, every ref is null.
InitVis ==
  \E ha, tapped \in BOOLEAN :
    vis = [mounted |-> TRUE,
           \* props
           hasAudio |-> ha,            \* audioRef?.current is an element
           isPlaying |-> FALSE,
           visualizerType |-> "bars",
           style |-> 0,                \* color and sensitivity, as one value
           \* state and refs
           isInitialized |-> FALSE,
           setInitialized |-> FALSE,   \* setIsInitialized(true) not yet rendered
           animationRef |-> 0,
           audioContextRef |-> NoCtx,
           analyserRef |-> NoCtx,      \* the context the analyser belongs to
           sourceRef |-> NoCtx,
           dataArrayRef |-> FALSE,
           \* platform
           elTapped |-> tapped,        \* the element already has a source node
           ctxState |-> <<>>,          \* state of each context it created
           pendingResume |-> {},
           edges |-> {},
           frames |-> {},              \* requestAnimationFrame callbacks queued
           fresh |-> FALSE,            \* the buffer holds the analyser's data
                                       \* of the operation that is running
           \* observation
           op |-> "mount",
           events |-> <<>>,            \* what the last operation did, in order
           started |-> FALSE,          \* isPlaying has been true
           fired |-> FALSE,            \* a frame callback ran since the last start
           drawn |-> FALSE,            \* a draw call was made since the last start
           stale |-> FALSE]            \* the last operation drew from a buffer
                                       \* it had not filled itself

\* The closure a render gives to animate (Visualizer.jsx:224 dependencies)
Closure(v) == [isPlaying |-> v.isPlaying, visualizerType |-> v.visualizerType,
               style |-> v.style]

FreeHandles(v) == (1 .. MaxHandles) \ ({f.h : f \in v.frames} \cup {v.animationRef})

NewHandle(v) == CHOOSE h \in FreeHandles(v) : \A g \in FreeHandles(v) : h <= g

\* Visualizer.jsx:21-48
VisInitializeAudioContext(v, st0) ==
  IF ~v.hasAudio \/ v.isInitialized THEN v
  ELSE IF ~hasAudioContext THEN v          \* TypeError, caught at line 45
  ELSE LET c == Len(v.ctxState) + 1
           v1 == [v EXCEPT !.audioContextRef = c,
                           !.ctxState = Append(@, st0),
                           !.analyserRef = c]
       IN IF v.elTapped THEN v1            \* InvalidStateError, caught at line 45
          ELSE [v1 EXCEPT !.sourceRef = c,
                          !.elTapped = TRUE,
                          !.edges = {"source>analyser", "analyser>destination"},
                          !.dataArrayRef = TRUE,
                          !.setInitialized = TRUE]

\* Visualizer.jsx:51-55
VisResumeAudioContext(v) ==
  IF v.audioContextRef # NoCtx /\ v.ctxState[v.audioContextRef] = "suspended"
  THEN [v EXCEPT !.pendingResume = @ \cup {v.audioContextRef}]
  ELSE v

\* Variant of VisAnimate that draws before it reads the analyser.
VisAnimate_DrawFirst(v, cl) ==
  IF v.analyserRef = NoCtx \/ ~v.dataArrayRef \/ ~v.mounted THEN v
  ELSE LET v0 == [v EXCEPT !.events = @ \o <<cl.visualizerType>>,
                           !.stale = ~v.fresh,
                           !.drawn = TRUE]
           v1 == [v0 EXCEPT !.fresh = TRUE,
                            !.events = @ \o <<"sample">>]
       IN IF cl.isPlaying
          THEN [v1 EXCEPT !.frames = @ \cup {[h |-> NewHandle(v1), cl |-> cl]},
                          !.animationRef = NewHandle(v1),
                          !.events = @ \o <<"schedule">>]
          ELSE v1

\* Variant of VisAnimate that never requests the next frame.
VisAnimate_NoSchedule(v, cl) ==
  IF v.analyserRef = NoCtx \/ ~v.dataArrayRef \/ ~v.mounted THEN v
  ELSE [v EXCEPT !.fresh = TRUE,
                 !.events = @ \o <<"sample", cl.visualizerType>>,
                 !.drawn = TRUE]

\* Visualizer.jsx:196-224, run with the closure cl: getByteFrequencyData
\* fills dataArrayRef.current (line 205), the draw function of the closure's
\* type reads that same array (208-219), then the next frame is requested
VisAnimate(v, cl) ==
  IF v.analyserRef = NoCtx \/ ~v.dataArrayRef \/ ~v.mounted THEN v
  ELSE LET v0 == [v EXCEPT !.fresh = TRUE,
                           !.events = @ \o <<"sample">>]
           v1 == [v0 EXCEPT !.events = @ \o <<cl.visualizerType>>,
                            !.stale = ~v0.fresh,
                            !.drawn = TRUE]
       IN IF cl.isPlaying
          THEN [v1 EXCEPT !.frames = @ \cup {[h |-> NewHandle(v1), cl |-> cl]},
                          !.animationRef = NewHandle(v1),
                          !.events = @ \o <<"schedule">>]
          ELSE v1

\* Variant of VisCancel that leaves the frame scheduled.
VisCancel_Forgotten(v) == v

\* Visualizer.jsx:249-251, 254-256, 273-275:
\* if (animationRef.current) cancelAnimationFrame(animationRef.current)
VisCancel(v) ==
  IF v.animationRef # 0
  THEN [v EXCEPT !.frames = {f \in @ : f.h # v.animationRef}]
  ELSE v

\* Visualizer.jsx:238-243
VisInitEffect(v, st0) ==
  IF v.isPlaying /\ v.hasAudio
  THEN VisResumeAudioContext(VisInitializeAudioContext(v, st0))
  ELSE v

\* Visualizer.jsx:246-251
VisStartStopEffect(v) ==
  IF v.isPlaying /\ v.isInitialized
  THEN VisAnimate(v, Closure(v))
  ELSE VisCancel(v)

\* One commit: the cleanups of the effects whose dependencies changed
\* (Visualizer.jsx:253-257), then their bodies in source order.
VisCommitOnce(v, initDeps, animDeps, st0) ==
  LET v1 == IF animDeps THEN VisCancel(v) ELSE v
      v2 == IF initDeps THEN VisInitEffect(v1, st0) ELSE v1
  IN IF animDeps THEN VisStartStopEffect(v2) ELSE v2

\* A commit and, when an effect called setIsInitialized(true), the render
\* and commit that follow (isInitialized is a dependency of both effects).
VisCommit(v, initDeps, animDeps, st0) ==
  LET a == VisCommitOnce(v, initDeps, animDeps, st0)
  IN IF a.setInitialized
     THEN VisCommitOnce([a EXCEPT !.isInitialized = TRUE, !.setInitialized = FALSE],
                        TRUE, TRUE, st0)
     ELSE a

\* A new operation starts: the analyser has moved on since the buffer was
\* last filled
VisBegin(v, name) == [v EXCEPT !.op = name, !.events = <<>>,
                               !.fresh = FALSE, !.stale = FALSE]

\* The call creates a context: bounded by MaxVisCtx
VisCreates(v) == v.isPlaying /\ v.hasAudio /\ ~v.isInitialized /\ hasAudioContext

\* The host changes the isPlaying prop
VisSetPlaying ==
  /\ vis.mounted
  /\ \E st0 \in {"suspended", "running"} :
       LET b == ~vis.isPlaying
           v0 == [VisBegin(vis, IF b THEN "play" ELSE "pause") EXCEPT
                    !.isPlaying = b,
                    !.started = @ \/ b,
                    !.fired = IF b THEN FALSE ELSE @,
                    !.drawn = IF b THEN FALSE ELSE @]
       IN /\ VisCreates(v0) => Len(vis.ctxState) < MaxVisCtx
          /\ FreeHandles(v0) # {}
          /\ vis' = VisCommit(v0, TRUE, TRUE, st0)
  /\ UNCHANGED <<graphVars, player, app, volume, calc>>

\* The host changes the visualizerType prop
VisSetType ==
  /\ vis.mounted
  /\ \E t \in VisTypes \ {vis.visualizerType} :
       LET v0 == [VisBegin(vis, "type") EXCEPT !.visualizerType = t]
       IN /\ FreeHandles(v0) # {}
          /\ vis' = VisCommit(v0, FALSE, TRUE, "kept")
  /\ UNCHANGED <<graphVars, player, app, volume, calc>>

\* The host changes color or sensitivity (drawBars, drawCircular and
\* drawWaveform depend on them, animate on those)
VisSetStyle ==
  /\ vis.mounted
  /\ LET v0 == [VisBegin(vis, "style") EXCEPT !.style = 1 - @]
     IN /\ FreeHandles(v0) # {}
        /\ vis' = VisCommit(v0, FALSE, TRUE, "kept")
  /\ UNCHANGED <<graphVars, player, app, volume, calc>>

\* The browser runs a queued animation frame callback
VisFrame ==
  /\ \E f \in vis.frames :
       LET v0 == [VisBegin(vis, "frame") EXCEPT !.frames = @ \ {f}, !.fired = TRUE]
       IN /\ FreeHandles(v0) # {}
          /\ vis' = VisAnimate(v0, f.cl)
  /\ UNCHANGED <<graphVars, player, app, volume, calc>>

\* Visualizer.jsx:273-278, with the clean-up of the start/stop effect before it
VisUnmountCleanup(v) ==
  LET v1 == VisCancel(VisCancel(v))
  IN IF v1.audioContextRef # NoCtx /\ v1.ctxState[v1.audioContextRef] # "closed"
     THEN [v1 EXCEPT !.ctxState[v1.audioContextRef] = "closed",
                     !.edges = {},
                     !.events = @ \o <<"close">>]
     ELSE v1

VisUnmount ==
  /\ vis.mounted
  /\ vis' = [VisUnmountCleanup(VisBegin(vis, "unmount")) EXCEPT !.mounted = FALSE]
  /\ UNCHANGED <<graphVars, player, app, volume, calc>>

\* The platform settles the resume() promise of Visualizer.jsx:53
VisResumeSettled ==
  /\ \E c \in vis.pendingResume, ok \in BOOLEAN :
       vis' = [VisBegin(vis, IF ok THEN "resumed" ELSE "resumeRejected") EXCEPT
                 !.pendingResume = @ \ {c},
                 !.ctxState[c] = IF ok /\ @ = "suspended" THEN "running" ELSE @]
  /\ UNCHANGED <<graphVars, player, app, volume, calc>>

NextVis ==
  \/ VisSetPlaying
  \/ VisSetType
  \/ VisSetStyle
  \/ VisFrame
  \/ VisUnmount
  \/ VisResumeSettled

\* ----------------------------------------------------------- AudioPlayer
Callbacks == {"none", "cb1", "cb2"}   \* identities of the onAudioAnalyzer prop

\* AudioPlayer.jsx:7-22, before any effect has run
PlayerFresh(cb) ==
  [mounted |-> TRUE,
   onAudioAnalyzer |-> cb,
   currentTrack |-> 0,
   isShuffled |-> FALSE,
   repeatMode |-> "none",
   error |-> "none",
   isPlaying |-> FALSE,
   isLoading |-> FALSE,
   volume |-> 70,             \* useState(0.7), in hundredths
   isMuted |-> FALSE,
   audioContextRef |-> FALSE,
   analyzerRef |-> FALSE,
   sourceRef |-> FALSE,
   animationRef |-> 0,
   \* platform
   ctxState |-> "none",       \* state of the context the component created
   elTapped |-> FALSE,        \* its <audio> element has a source node
   edges |-> {},
   elPlaying |-> FALSE,       \* the element is playing
   elVolume |-> 100,          \* its volume attribute: 1.0 until set
   pending |-> {},            \* resume() and play() promises not yet settled
   timers |-> 0,              \* pending 100 ms timers of handleEnded
   \* observation
   op |-> "mount",
   events |-> <<>>,
   muteTrail |-> <<>>,        \* the element volumes found by the toggleMute
                              \* calls made in a row, up to two
   playRequested |-> FALSE,   \* the user has pressed the play/pause button
   failed |-> FALSE,          \* the element reported an error, or a play()
                              \* was rejected, after the last user request
   cause |-> "none"]          \* the kind of failure that set `error`

\* AudioPlayer.jsx:26-40
PlayerInitAudioContext(p, st0) ==
  IF p.audioContextRef THEN p
  ELSE IF ~hasAudioContext
       THEN [p EXCEPT !.error = "Audio context initialization failed",
                      !.cause = "construct"]
       ELSE [p EXCEPT !.audioContextRef = TRUE, !.ctxState = st0, !.analyzerRef = TRUE]

\* AudioPlayer.jsx:50-70
PlayerConnectEffect(p) ==
  IF ~(p.mounted /\ p.audioContextRef /\ p.analyzerRef) THEN p
  ELSE LET p1 == IF p.sourceRef
                 THEN [p EXCEPT !.edges = @ \ {"source>analyser"},
                                !.events = @ \o <<"source.disconnect">>]
                 ELSE p
       IN IF p1.elTapped
          THEN \* createMediaElementSource throws InvalidStateError, caught at 65
               [p1 EXCEPT !.events = @ \o <<"warn">>]
          ELSE [p1 EXCEPT !.sourceRef = TRUE,
                          !.elTapped = TRUE,
                          !.edges = @ \cup {"source>analyser", "analyser>destination"},
                          !.events = @ \o (IF p.onAudioAnalyzer # "none"
                                           THEN <<"onAudioAnalyzer">> ELSE <<>>)]

\* State after the first render and both effects
InitPlayer ==
  \E cb \in Callbacks, st0 \in {"suspended", "running"} :
    player = PlayerConnectEffect(PlayerInitAudioContext(PlayerFresh(cb), st0))

PlayerBegin(p, name) == [p EXCEPT !.op = name, !.events = <<>>, !.muteTrail = <<>>]

\* A promise the component started: resume() or play(), with the handler
\* that started it and the isPlaying its closure captured
Promise(o, b, ip) == [of |-> o, by |-> b, isPlaying |-> ip]

\* A play() promise is rejected. togglePlayPause awaits it inside try
\* (AudioPlayer.jsx:85, 90-94); handleEnded and its timer drop the promise
\* (165, 171), so nothing runs when it is rejected.
PlayerPlayRejected(p, q) ==
  IF q.by = "togglePlayPause"
  THEN [p EXCEPT !.error = "Playback failed", !.cause = "play",
                 !.isLoading = FALSE, !.failed = TRUE]
  ELSE [p EXCEPT !.failed = TRUE]

\* The element fails or is given another resource while play() promises are
\* pending: the platform rejects them all, right after the event
PlayerRejectPlays(p) ==
  LET plays == {q \in p.pending : q.of = "play"}
      p1 == [p EXCEPT !.pending = @ \ plays]
      p2 == IF \E q \in plays : q.by = "handleEnded"
            THEN PlayerPlayRejected(p1, Promise("play", "handleEnded", FALSE))
            ELSE p1
  IN IF \E q \in plays : q.by = "togglePlayPause"
     THEN PlayerPlayRejected(p2, Promise("play", "togglePlayPause", FALSE))
     ELSE p2

\* setCurrentTrack(t) and the commit that follows: the connect effect
\* depends on currentTrack (AudioPlayer.jsx:70)
PlayerSetCurrentTrack(p, t) ==
  IF t = p.currentTrack THEN p
  ELSE \* the src attribute changes (AudioPlayer.jsx:213): the element
       \* loads the new resource and stops playing the old one
       PlayerRejectPlays(
         PlayerConnectEffect([p EXCEPT !.currentTrack = t, !.elPlaying = FALSE]))

\* Variant of PreviousTrack that stops at the first track.
PreviousTrack_NoWrap(p) ==
  IF p.currentTrack > 0 THEN p.currentTrack - 1 ELSE 0

\* AudioPlayer.jsx:99
PreviousTrack(p) ==
  IF p.currentTrack > 0 THEN p.currentTrack - 1 ELSE NumTracks - 1

\* Variant of NextTrack that stops at the last track.
NextTrack_NoWrap(p, randomTrack) ==
  IF p.isShuffled THEN randomTrack
  ELSE IF p.currentTrack < NumTracks - 1 THEN p.currentTrack + 1 ELSE p.currentTrack

\* AudioPlayer.jsx:105-111: the track playNext selects, randomTrack being
\* the index Math.floor(Math.random() * audioSamples.length) gives
NextTrack(p, randomTrack) ==
  IF p.isShuffled THEN randomTrack
  ELSE IF p.currentTrack < NumTracks - 1 THEN p.currentTrack + 1 ELSE 0

\* AudioPlayer.jsx:98-102
playPrevious ==
  /\ player.mounted
  /\ player' = PlayerSetCurrentTrack(PlayerBegin(player, "playPrevious"),
                                     PreviousTrack(player))
  /\ UNCHANGED <<graphVars, vis, app, volume, calc>>

\* AudioPlayer.jsx:104-113; Math.random() draws any index
playNext ==
  /\ player.mounted
  /\ \E randomTrack \in 0 .. NumTracks - 1 :
       player' = PlayerSetCurrentTrack(PlayerBegin(player, "playNext"),
                                       NextTrack(player, randomTrack))
  /\ UNCHANGED <<graphVars, vis, app, volume, calc>>

\* AudioPlayer.jsx:380-383
selectTrack ==
  /\ player.mounted
  /\ \E index \in 0 .. NumTracks - 1 :
       player' = PlayerSetCurrentTrack(PlayerBegin(player, "selectTrack"), index)
  /\ UNCHANGED <<graphVars, vis, app, volume, calc>>

\* AudioPlayer.jsx:284
toggleShuffle ==
  /\ player.mounted
  /\ player' = [PlayerBegin(player, "toggleShuffle") EXCEPT !.isShuffled = ~@]
  /\ UNCHANGED <<graphVars, vis, app, volume, calc>>

\* AudioPlayer.jsx:194-199
toggleRepeat ==
  /\ player.mounted
  /\ player' = [PlayerBegin(player, "toggleRepeat") EXCEPT
                  !.repeatMode = CASE @ = "none" -> "all"
                                   [] @ = "all" -> "one"
                                   [] @ = "one" -> "none"]
  /\ UNCHANGED <<graphVars, vis, app, volume, calc>>

\* The host passes another onAudioAnalyzer: the connect effect depends on it
PlayerSetCallback ==
  /\ player.mounted
  /\ \E cb \in Callbacks \ {player.onAudioAnalyzer} :
       player' = PlayerConnectEffect(
                   [PlayerBegin(player, "setCallback") EXCEPT !.onAudioAnalyzer = cb])
  /\ UNCHANGED <<graphVars, vis, app, volume, calc>>

\* A play() promise is fulfilled (AudioPlayer.jsx:86-88 for togglePlayPause,
\* where the user's request takes effect)
PlayerPlayResolved(p, q) ==
  IF q.by = "togglePlayPause"
  THEN [p EXCEPT !.elPlaying = TRUE, !.isLoading = FALSE,
                 !.isPlaying = ~q.isPlaying, !.error = "none", !.cause = "none",
                 !.failed = FALSE]
  ELSE [p EXCEPT !.elPlaying = TRUE]

\* AudioPlayer.jsx:81-89, up to the await of play(); wasPlaying is the
\* isPlaying of the render whose togglePlayPause is running
PlayerPauseOrPlay(p, wasPlaying) ==
  IF wasPlaying
  THEN [p EXCEPT !.elPlaying = FALSE, !.isPlaying = ~wasPlaying,
                 !.error = "none", !.cause = "none"]
  ELSE [p EXCEPT !.isLoading = TRUE,
                 !.pending = @ \cup {Promise("play", "togglePlayPause", wasPlaying)}]

\* AudioPlayer.jsx:73-95, up to its first await
togglePlayPause ==
  /\ player.mounted
  /\ Cardinality(player.pending) < MaxPending
  /\ LET p == [PlayerBegin(player, "togglePlayPause") EXCEPT
                 !.playRequested = TRUE, !.failed = FALSE]
     IN player' = IF p.ctxState = "suspended"
                  THEN [p EXCEPT !.pending = @ \cup
                          {Promise("resume", "togglePlayPause", p.isPlaying)}]
                  ELSE PlayerPauseOrPlay(p, p.isPlaying)
  /\ UNCHANGED <<graphVars, vis, app, volume, calc>>

\* The platform settles the resume() promise of AudioPlayer.jsx:78:
\* fulfilled, togglePlayPause goes on; rejected, its catch runs (90-94)
PlayerResumeSettled ==
  /\ player.mounted
  /\ \E q \in player.pending, ok \in BOOLEAN :
       /\ q.of = "resume"
       /\ LET p == [PlayerBegin(player, IF ok THEN "resumed" ELSE "resumeRejected")
                     EXCEPT !.pending = @ \ {q}]
          IN player' = IF ok
                       THEN PlayerPauseOrPlay([p EXCEPT !.ctxState = "running"],
                                              q.isPlaying)
                       ELSE [p EXCEPT !.error = "Playback failed", !.cause = "resume",
                                      !.isLoading = FALSE]
  /\ UNCHANGED <<graphVars, vis, app, volume, calc>>

\* The platform settles a play() promise
PlayerPlaySettled ==
  /\ player.mounted
  /\ \E q \in player.pending, ok \in BOOLEAN :
       /\ q.of = "play"
       /\ LET p == [PlayerBegin(player, IF ok THEN "played" ELSE "playRejected")
                     EXCEPT !.pending = @ \ {q}]
          IN player' = IF ok THEN PlayerPlayResolved(p, q) ELSE PlayerPlayRejected(p, q)
  /\ UNCHANGED <<graphVars, vis, app, volume, calc>>

\* AudioPlayer.jsx:160-176: the element has played its resource to the end
handleEnded ==
  /\ player.mounted
  /\ player.elPlaying
  /\ \E randomTrack \in 0 .. NumTracks - 1 :
       LET p == [PlayerBegin(player, "handleEnded") EXCEPT
                   !.elPlaying = FALSE, !.isPlaying = FALSE]
       IN IF p.repeatMode = "one"
          THEN /\ Cardinality(p.pending) < MaxPending
               /\ player' = [p EXCEPT !.pending = @ \cup {Promise("play", "handleEnded", FALSE)},
                                      !.isPlaying = TRUE]
          ELSE IF p.repeatMode = "all" \/ p.currentTrack < NumTracks - 1
               THEN /\ p.timers < MaxTimers
                    /\ player' = [PlayerSetCurrentTrack(p, NextTrack(p, randomTrack))
                                   EXCEPT !.timers = @ + 1]
               ELSE player' = p
  /\ UNCHANGED <<graphVars, vis, app, volume, calc>>

\* AudioPlayer.jsx:169-174: the 100 ms timer of handleEnded fires
PlayerTimer ==
  /\ player.mounted
  /\ player.timers > 0
  /\ Cardinality(player.pending) < MaxPending
  /\ player' = [PlayerBegin(player, "timer") EXCEPT
                  !.timers = @ - 1,
                  !.pending = @ \cup {Promise("play", "handleEnded", FALSE)},
                  !.isPlaying = TRUE]
  /\ UNCHANGED <<graphVars, vis, app, volume, calc>>

\* AudioPlayer.jsx:178-183: the element reports a load or decode error
handleError ==
  /\ player.mounted
  /\ player' = PlayerRejectPlays(
                 [PlayerBegin(player, "handleError") EXCEPT
                    !.error = "Failed to load audio track", !.cause = "load",
                    !.isPlaying = FALSE, !.isLoading = FALSE,
                    !.elPlaying = FALSE, !.failed = TRUE])
  /\ UNCHANGED <<graphVars, vis, app, volume, calc>>

\* AudioPlayer.jsx:42-46, the only clean-up the component has. The element
\* is removed with the component: audioRef.current is null from here on and
\* set-state calls of late continuations have no effect, so the promises and
\* timers still pending are not followed further.
PlayerUnmount ==
  /\ player.mounted
  /\ player' = [PlayerBegin(player, "unmount") EXCEPT
                  !.mounted = FALSE, !.elPlaying = FALSE,
                  !.pending = {}, !.timers = 0]
  /\ UNCHANGED <<graphVars, vis, app, volume, calc>>

\* Positions of the volume slider followed, in hundredths (min 0, max 1,
\* step 0.01: AudioPlayer.jsx:357-359)
VolumeSteps == {0, 1, 70, 100}

\* AudioPlayer.jsx:360: the value the slider shows
SliderValue(p) == IF p.isMuted THEN 0 ELSE p.volume

\* AudioPlayer.jsx:116-123: the slider is moved to another position
handleVolumeChange ==
  /\ player.mounted
  /\ \E newVolume \in VolumeSteps \ {SliderValue(player)} :
       player' = [PlayerBegin(player, "handleVolumeChange") EXCEPT
                    !.volume = newVolume,
                    !.elVolume = newVolume,
                    !.isMuted = (newVolume = 0)]
  /\ UNCHANGED <<graphVars, vis, app, volume, calc>>

\* AudioPlayer.jsx:126-134
MuteToggled(p) ==
  IF p.isMuted
  THEN [p EXCEPT !.elVolume = p.volume, !.isMuted = FALSE]
  ELSE [p EXCEPT !.elVolume = 0, !.isMuted = TRUE]

\* AudioPlayer.jsx:125-135
toggleMute ==
  /\ player.mounted
  /\ player' = [MuteToggled(PlayerBegin(player, "toggleMute")) EXCEPT
                  !.muteTrail = IF Len(player.muteTrail) < 2
                                THEN player.muteTrail \o <<player.elVolume>>
                                ELSE <<player.muteTrail[2], player.elVolume>>]
  /\ UNCHANGED <<graphVars, vis, app, volume, calc>>

\* AudioPlayer.jsx:147-152: the element has loaded the metadata of its
\* resource, after the mount or after a change of track
handleLoadedMetadata ==
  /\ player.mounted
  /\ player' = [PlayerBegin(player, "handleLoadedMetadata") EXCEPT
                  !.elVolume = IF player.isMuted THEN 0 ELSE player.volume]
  /\ UNCHANGED <<graphVars, vis, app, volume, calc>>

NextPlayerVolume ==
  \/ handleVolumeChange
  \/ toggleMute
  \/ handleLoadedMetadata

NextPlayer ==
  \/ playPrevious
  \/ playNext
  \/ selectTrack
  \/ toggleShuffle
  \/ toggleRepeat
  \/ PlayerSetCallback
  \/ togglePlayPause
  \/ PlayerResumeSettled
  \/ PlayerPlaySettled
  \/ handleEnded
  \/ PlayerTimer
  \/ handleError
  \/ PlayerUnmount

\* -------------------------------------------------------------------- App
\* The keys of the object initializeAudioContext returns (part_001:310-316
\* and 320-327, without `error`)
ResultKeys == {"audioContext", "analyser", "dataArray", "gainNode", "isInitialized"}

\* App.jsx:10-18, the state after mount: no effect does anything yet
InitApp ==
  app = [mounted |-> TRUE,
         audioContext |-> FALSE,     \* state audioContext is an object
         analyzer |-> FALSE,         \* state analyzer is an object
         isPlaying |-> FALSE,
         currentTrack |-> 0,         \* 0: null, else the id of the track object
         isLoading |-> FALSE,
         error |-> "none",
         sourceRef |-> FALSE,
         \* platform
         elPlaying |-> FALSE,        \* App's <audio> element is playing
         playPending |-> FALSE,      \* the play() promise of line 77 is pending
         errorTimer |-> FALSE,       \* the 5000 ms timer of line 107 is pending
         \* observation
         op |-> "mount",
         events |-> <<>>]

AppBegin(a, name) == [a EXCEPT !.op = name, !.events = <<>>]

\* setError(e) and the commit that follows (App.jsx:104-110): the clean-up
\* clears the timer of the previous error, the effect arms one for the new
AppSetError(a, e) == [a EXCEPT !.error = e, !.errorTimer = e # "none"]

\* App.jsx:35-43. connectAnalyzer(audioElement) is called with the context
\* as its first argument: createMediaElementSource(context) throws
\* TypeError, caught at line 39, and sourceRef stays null.
AppConnectEffect(a) ==
  IF a.audioContext /\ a.analyzer /\ ~a.sourceRef
  THEN [a EXCEPT !.events = @ \o <<"connectAnalyzer", "threw">>]
  ELSE a

\* App.jsx:24-26, after the await: `context` is not a key of the returned
\* object, `analyser` is one and is an object when the call succeeded
AppStoreResult(a, ret) ==
  AppConnectEffect([a EXCEPT !.audioContext = "context" \in ResultKeys /\ ret = "initialized",
                             !.analyzer = "analyser" \in ResultKeys /\ ret = "initialized",
                             !.events = @ \o <<"initializeAudioContext", ret>>])

\* App.jsx:21-32: `if (!audioContext)` calls the graph module with no element
AppInitAudio ==
  IF app.audioContext THEN UNCHANGED graphVars
  ELSE initializeAudioContextCall(NoElem)

\* The platform rejects the pending play() promise (App.jsx:80-83)
AppPlayRejected(a) ==
  IF a.playPending
  THEN AppSetError([a EXCEPT !.playPending = FALSE], "Playback failed")
  ELSE a

\* App.jsx:67-84, up to the await of play(); one play() promise at a time
\* is followed
handlePlayPause ==
  /\ app.mounted
  /\ ~app.playPending
  /\ AppInitAudio
  /\ LET a == IF app.audioContext THEN AppBegin(app, "handlePlayPause")
              ELSE AppStoreResult(AppBegin(app, "handlePlayPause"), lastOp'.ret)
     IN app' = IF app.isPlaying
               THEN [a EXCEPT !.elPlaying = FALSE, !.isPlaying = FALSE]
               ELSE [a EXCEPT !.playPending = TRUE]
  /\ UNCHANGED <<vis, player, volume, calc>>

\* The platform settles the play() promise of App.jsx:77
AppPlaySettled ==
  /\ app.mounted
  /\ app.playPending
  /\ \E ok \in BOOLEAN :
       app' = IF ok
              THEN [AppBegin(app, "played") EXCEPT
                      !.playPending = FALSE, !.elPlaying = TRUE, !.isPlaying = TRUE]
              ELSE AppPlayRejected(AppBegin(app, "playRejected"))
  /\ UNCHANGED <<graphVars, vis, player, volume, calc>>

\* App.jsx:46-64: the awaits inside settle in microtasks of the same task
handleTrackLoad ==
  /\ app.mounted
  /\ AppInitAudio
  /\ \E track \in 1 .. NumTracks :
       LET a0 == AppSetError([AppBegin(app, "handleTrackLoad") EXCEPT !.isLoading = TRUE],
                             "none")
           a1 == IF app.audioContext THEN a0 ELSE AppStoreResult(a0, lastOp'.ret)
           \* setCurrentTrack re-runs the connect effect (line 43); the new
           \* src makes the element drop what it was playing
           a2 == AppConnectEffect([a1 EXCEPT !.currentTrack = track])
       IN app' = [AppPlayRejected([a2 EXCEPT !.elPlaying = FALSE])
                  EXCEPT !.isLoading = FALSE]
  /\ UNCHANGED <<vis, player, volume, calc>>

\* App.jsx:95-97
handleAudioEnded ==
  /\ app.mounted
  /\ app.elPlaying
  /\ app' = [AppBegin(app, "handleAudioEnded") EXCEPT
               !.elPlaying = FALSE, !.isPlaying = FALSE]
  /\ UNCHANGED <<graphVars, vis, player, volume, calc>>

\* App.jsx:99-102: the element reports an error, and the platform rejects
\* the play() promise that is pending on it
handleAudioError ==
  /\ app.mounted
  /\ app' = AppPlayRejected(
              AppSetError([AppBegin(app, "handleAudioError") EXCEPT
                             !.isPlaying = FALSE, !.elPlaying = FALSE],
                          "Audio playback error"))
  /\ UNCHANGED <<graphVars, vis, player, volume, calc>>

\* App.jsx:107: the 5000 ms timer fires
AppErrorTimer ==
  /\ app.mounted
  /\ app.errorTimer
  /\ app' = AppSetError(AppBegin(app, "errorTimer"), "none")
  /\ UNCHANGED <<graphVars, vis, player, volume, calc>>

\* App.jsx:238-239: onLoadStart and onCanPlay of the element
AppLoadProgress ==
  /\ app.mounted
  /\ app.currentTrack # 0
  /\ \E loading \in BOOLEAN :
       app' = [AppBegin(app, IF loading THEN "loadStart" ELSE "canPlay") EXCEPT
                 !.isLoading = loading]
  /\ UNCHANGED <<graphVars, vis, player, volume, calc>>

NextApp ==
  \/ handlePlayPause
  \/ AppPlaySettled
  \/ handleTrackLoad
  \/ handleAudioEnded
  \/ handleAudioError
  \/ AppErrorTimer
  \/ AppLoadProgress

\* ------------------------------------------------- per-frame computations
\* AnalyserNode.fftSize is a power of two from 32 up; the module sets 256
\* (part_001:293), and hands the analyser out to its callers
FftSizes == {32, FftSize}

\* analyser.frequencyBinCount (part_001:307)
BinCount(fft) == fft \div 2

\* Byte values a bin can hold (a Uint8Array element is 0..255): silence,
\* the default beat threshold, and full scale
Levels == {0, DefaultThreshold, 255}

\* The snapshots followed: every bin at one level, or all bins but one
Snapshots(n) ==
  {[i \in 0 .. n - 1 |-> IF i = k THEN s ELSE b] :
     b \in Levels, s \in Levels, k \in 0 .. n - 1}

Length(data) == Cardinality(DOMAIN data)

\* let sum = 0; for (let i = start; i < end; i++) sum += frequencyData[i]
\* The additions are grouped in halves to keep the evaluation shallow: the
\* terms are bytes, so every partial sum is an integer a double holds
\* exactly and the grouping does not change the result.
RECURSIVE SumLoop(_, _, _)
SumLoop(data, start, end) ==
  IF end <= start THEN 0
  ELSE IF end = start + 1 THEN data[start]
  ELSE LET half == (start + end) \div 2
       IN SumLoop(data, start, half) + SumLoop(data, half, end)

\* The quotient sum / n of two integers; n = 0 gives NaN or Infinity
Quotient(sum, n) == [sum |-> sum, n |-> n]

\* `return 0` of part_001:409, 420, 432, 445
Zero == Quotient(0, 1)

\* The loop bounds of the three band functions (part_001:421-423, 433-436,
\* 446-448) for a snapshot of n bins
BassRange(n) == [from |-> 0, to |-> n \div 8]

\* Variant of MidRange that stops at half of the snapshot.
MidRange_Half(n) == [from |-> n \div 8, to |-> (n * 4) \div 8]

MidRange(n) == [from |-> n \div 8, to |-> (n * 5) \div 8]

TrebleRange(n) == [from |-> (n * 5) \div 8, to |-> n]

\* part_001:410-412
AverageRange(n) == [from |-> 0, to |-> n]

\* Variant of LevelOver that divides by the length of the whole snapshot.
LevelOver_Whole(data, r) ==
  Quotient(SumLoop(data, r.from, r.to), Length(data))

\* The sum over the range divided by the length of the range
\* (part_001:412, 424, 437, 449)
LevelOver(data, r) ==
  Quotient(SumLoop(data, r.from, r.to), r.to - r.from)

\* Variant of Exceeds that also accepts a level equal to the threshold.
Exceeds_AtLeast(q, threshold) ==
  q.n # 0 /\ q.sum >= threshold * q.n

\* Variant of Exceeds with the comparison reversed.
Exceeds_Below(q, threshold) ==
  q.n # 0 /\ q.sum < threshold * q.n

\* bassLevel > threshold (part_001:457); a comparison with NaN is false
Exceeds(q, threshold) ==
  q.n # 0 /\ q.sum > threshold * q.n

\* part_001:455-458 on the snapshot getFrequencyData returns
BeatOn(data, threshold) ==
  Exceeds(LevelOver(data, BassRange(Length(data))), threshold)

\* Variant of BarHeight that scales by 256.
BarHeight_256(sample, height, sensitivity) ==
  Quotient(sample * height * sensitivity.sum, 256 * sensitivity.n)

\* Visualizer.jsx:74: (dataArray[i] / 255) * height * sensitivity, with
\* sensitivity a quotient of two integers
BarHeight(sample, height, sensitivity) ==
  Quotient(sample * height * sensitivity.sum, 255 * sensitivity.n)

\* The module after initializeAudioContext (ready, the analyser holding
\* one of the snapshots) or before it
InitCalc ==
  \E ready \in BOOLEAN, fft \in FftSizes :
    \E data \in IF ready THEN Snapshots(BinCount(fft)) ELSE {<<>>} :
      calc = [mounted |-> TRUE,
              ready |-> ready,          \* analyser and dataArray exist
              data |-> data,            \* what getByteFrequencyData delivers
              updates |-> 0,            \* snapshots delivered since
              op |-> "none",
              range |-> [from |-> 0, to |-> 0],
              level |-> Zero,           \* result of a level function
              arg |-> <<>>,             \* what detectBeat was called with
              threshold |-> 0,
              beat |-> FALSE,           \* result of detectBeat
              height |-> 0,
              sensitivity |-> Quotient(1, 1),
              bars |-> <<>>]            \* bar heights drawn by drawBars

\* A call starts: what the previous call returned is gone
CalcBegin(c, name) ==
  [c EXCEPT !.op = name,
            !.range = [from |-> 0, to |-> 0],
            !.level = Zero,
            !.arg = <<>>,
            !.threshold = 0,
            !.beat = FALSE,
            !.height = 0,
            !.sensitivity = Quotient(1, 1),
            !.bars = <<>>]

\* getFrequencyData() inside a level function, then the loop and the
\* division; `if (!frequencyData) return 0` when the module is not ready
CalcLevel(name, r) ==
  /\ calc' = [CalcBegin(calc, name) EXCEPT
                !.range = IF calc.ready THEN r ELSE [from |-> 0, to |-> 0],
                !.level = IF calc.ready THEN LevelOver(calc.data, r) ELSE Zero]
  /\ UNCHANGED <<graphVars, vis, player, app, volume>>

\* part_001:407-413
getAverageFrequency == CalcLevel("getAverageFrequency", AverageRange(Length(calc.data)))

\* part_001:418-425
getBassFrequency == CalcLevel("getBassFrequency", BassRange(Length(calc.data)))

\* part_001:430-438
getMidFrequency == CalcLevel("getMidFrequency", MidRange(Length(calc.data)))

\* part_001:443-450
getTrebleFrequency == CalcLevel("getTrebleFrequency", TrebleRange(Length(calc.data)))

\* Thresholds a caller passes, on the 0..255 scale of the samples
Thresholds == {0, DefaultThreshold - 1, DefaultThreshold, 254}

\* part_001:455-458; arg is <<>> when the caller passes no threshold
detectBeat ==
  /\ \E arg \in {<<>>} \cup {<<t>> : t \in Thresholds} :
       LET threshold == IF arg = <<>> THEN DefaultThreshold ELSE arg[1]
           bassLevel == IF calc.ready
                        THEN LevelOver(calc.data, BassRange(Length(calc.data)))
                        ELSE Zero
       IN calc' = [CalcBegin(calc, "detectBeat") EXCEPT
                     !.arg = arg,
                     !.threshold = threshold,
                     !.level = bassLevel,
                     !.beat = Exceeds(bassLevel, threshold)]
  /\ UNCHANGED <<graphVars, vis, player, app, volume>>

\* canvas.height values and sensitivity props followed
Heights == {0, 150, 400}

Sensitivities == {Quotient(1, 2), Quotient(1, 1), Quotient(2, 1)}

\* Visualizer.jsx:58-90, called by animate with the buffer it has filled
drawBars ==
  /\ calc.ready
  /\ \E height \in Heights, sensitivity \in Sensitivities :
       LET barCount == Length(calc.data)
       IN calc' = [CalcBegin(calc, "drawBars") EXCEPT
                     !.height = height,
                     !.sensitivity = sensitivity,
                     !.bars = [i \in 1 .. barCount |->
                                 BarHeight(calc.data[i - 1], height, sensitivity)]]
  /\ UNCHANGED <<graphVars, vis, player, app, volume>>

\* The audio moves on: the next getByteFrequencyData (part_001:366,
\* Visualizer.jsx:205) delivers another snapshot of the same length
analyserUpdate ==
  /\ calc.ready
  /\ calc.updates < MaxUpdates
  /\ \E b \in Levels :
       /\ calc.data # [i \in DOMAIN calc.data |-> b]
       /\ calc' = [CalcBegin(calc, "none") EXCEPT
                     !.data = [i \in DOMAIN calc.data |-> b],
                     !.updates = @ + 1]
  /\ UNCHANGED <<graphVars, vis, player, app, volume>>

NextCalc ==
  \/ analyserUpdate
  \/ getAverageFrequency
  \/ getBassFrequency
  \/ getMidFrequency
  \/ getTrebleFrequency
  \/ detectBeat
  \/ drawBars

\* --------------------------------------------------------------- setVolume
\* Volumes are counted in tenths: VolumeUnit stands for the 1 of
\* Math.min(1, volume) (part_001:397)
VolumeUnit == 10

\* Levels a caller passes: below 0, 0, in between, 1, above 1
VolumeArgs == {0 - 5, 0, 7, VolumeUnit, 15}

\* Math.max(0, Math.min(1, volume))
Clamp(v) ==
  LET capped == IF v < VolumeUnit THEN v ELSE VolumeUnit
  IN IF capped > 0 THEN capped ELSE 0

\* part_001:391-402. Without a gain node the call warns and returns. With
\* one, gainNode.gain.setValueAtTime(clampedVolume, audioContext.currentTime)
\* sets the value from the current time on; reading currentTime of a null
\* audioContext throws a TypeError, which the catch logs, and nothing has
\* been set. volume records the call: its argument, the gain node it
\* found, the value it set (<<>> when none) and whether the catch ran.
setVolume ==
  /\ \E level \in VolumeArgs :
       volume' = [arg |-> <<level>>,
                  node |-> gainNode,
                  gain |-> IF gainNode # NoNode /\ audioContext # NoCtx
                           THEN <<Clamp(level)>>
                           ELSE <<>>,
                  caught |-> gainNode # NoNode /\ audioContext = NoCtx]
  /\ UNCHANGED <<graphVars, vis, player, app, calc>>

NextVolume ==
  \/ \E el \in Elems \cup {NoElem} : initializeAudioContext(el)
  \/ cleanupAudioContext
  \/ cleanupResumed
  \/ setVolume

NextGraph ==
  \/ \E el \in Elems \cup {NoElem} : initializeAudioContext(el)
  \/ \E el \in Elems \cup {NoElem} : connectAnalyzer(el)
  \/ getFrequencyData
  \/ getTimeDomainData
  \/ cleanupAudioContext
  \/ cleanupResumed
  \/ resumeAudioContext
  \/ resumeResolved
  \/ resumeRejected

\* A component that is not part of the system under study
Absent == [mounted |-> FALSE]

\* No setVolume call was made: every gain node has its default value
NoVolume == [arg |-> <<>>, node |-> NoNode, gain |-> <<>>, caught |-> FALSE]

InitG ==
  /\ InitGraph
  /\ vis = Absent
  /\ player = Absent
  /\ app = Absent
  /\ volume = NoVolume
  /\ calc = Absent

InitV ==
  /\ InitGraph
  /\ InitVis
  /\ player = Absent
  /\ app = Absent
  /\ volume = NoVolume
  /\ calc = Absent

InitP ==
  /\ InitGraph
  /\ InitPlayer
  /\ vis = Absent
  /\ app = Absent
  /\ volume = NoVolume
  /\ calc = Absent

InitA ==
  /\ InitGraph
  /\ InitApp
  /\ vis = Absent
  /\ player = Absent
  /\ volume = NoVolume
  /\ calc = Absent

InitC ==
  /\ InitGraph
  /\ InitCalc
  /\ vis = Absent
  /\ player = Absent
  /\ app = Absent
  /\ volume = NoVolume

\* The computations made on one snapshot
SpecCalc == InitC /\ [][NextCalc]_vars

\* The gain stage of the graph module: set up, torn down, and set
SpecVolume == InitG /\ [][NextVolume]_vars

\* The graph module driven directly by its callers
SpecGraph == InitG /\ [][NextGraph]_vars

\* A mounted Visualizer, its host and the browser
SpecVis == InitV /\ [][NextVis]_vars

\* A mounted AudioPlayer, its host and its user
SpecPlayer == InitP /\ [][NextPlayer]_vars

\* The volume controls of a mounted AudioPlayer
SpecPlayerVolume == InitP /\ [][NextPlayerVolume]_vars

\* A mounted App with its handlers, its element and the graph module
SpecApp == InitA /\ [][NextApp]_vars

\* The same, where the browser runs what it has queued: a timer that is due
\* fires and a promise the platform holds is settled. Nothing is assumed of
\* the user.
SpecPlayerLive ==
  /\ InitP
  /\ [][NextPlayer]_vars
  /\ WF_vars(PlayerTimer)
  /\ WF_vars(PlayerResumeSettled)
  /\ WF_vars(PlayerPlaySettled)

\* ------------------------------------------------------------------ claims
Sampling == {"getFrequencyData", "getTimeDomainData"}

\* No teardown has touched the graph: cleanupAudioContext has never called
\* close(), which it does the first time it meets a context.
NoTeardown == closing = {}

TapsOf(e) == {s \in taps : s.elem = e}

\* A complete signal path from the module's source to the destination, and
\* no other connection anywhere.
OnePath ==
  /\ source \in taps
  /\ edges = {Edge(source, analyser), Edge(analyser, gainNode),
              Edge(gainNode, Destination(audioContext))}

\* C1 (as amended): over any sequence of initializeAudioContext(el) and
\* connectAnalyzer(el) calls with one element, at most one media-element
\* source is ever created for the element, and once it exists exactly one
\* source -> analyser -> gain -> destination path exists.
C1_OneTapOnePath ==
  NoTeardown =>
    \A e \in Elems :
      /\ Cardinality(TapsOf(e)) <= 1
      /\ (TapsOf(e) # {} /\ taps = TapsOf(e)) => OnePath

\* C1 as stated: additionally, no second tap is ever attempted.
C1_NoSecondAttempt ==
  NoTeardown =>
    \A e \in Elems :
      /\ Cardinality(TapsOf(e)) <= 1
      /\ (TapsOf(e) # {} /\ taps = TapsOf(e)) => OnePath
      /\ e \notin retapped

\* C1 witness: e1 is tapped by initializeAudioContext, a later
\* connectAnalyzer(e1) has been rejected by the platform, no other element
\* was used.
C1_Witness ==
  /\ NoTeardown
  /\ taps # {} /\ taps = TapsOf("e1")
  /\ retapped = {"e1"}
  /\ lastOp.op = "connectAnalyzer" /\ lastOp.el = "e1" /\ lastOp.threw
  /\ dataArray # NoBuf

\* C6: sampling before any source was bound returns null and does not throw.
C6_NotReadyBeforeBind ==
  (lastOp.op \in Sampling /\ taps = {}) => (lastOp.ret = "null" /\ ~lastOp.threw)

\* C7: a sampling call returns data only when the context is running; while
\* it is suspended the call returns null.
C7_NotReadyWhileSuspended ==
  (lastOp.op \in Sampling /\ lastOp.ret = "data") =>
    (audioContext # NoCtx /\ ctxState[audioContext] = "running")

Clean ==
  /\ audioContext = NoCtx
  /\ analyser = NoNode
  /\ gainNode = NoNode
  /\ source = NoNode
  /\ dataArray = NoBuf

\* C8: once cleanupAudioContext has been called one or more times in a row
\* and every such call has finished, context, analyser, gain node, source and
\* buffer are all absent and nothing was thrown; on a module that never
\* created a context the platform state is untouched as well.
C8_CleanupIdempotent ==
  (cleanRun >= 1 /\ pendingClose = {}) =>
    /\ Clean
    /\ ~lastOp.threw
    /\ nextCtx = 1 => (edges = {} /\ closing = {} /\ taps = {})

\* C8 witness: two calls in a row on a graph that had a bound source.
C8_Witness ==
  /\ cleanRun = 2 /\ pendingClose = {}
  /\ taps # {} /\ closing # {}
  /\ lastOp.op = "cleanupAudioContext"

CallRank(x) ==
  CASE x = "source.disconnect" -> 1
    [] x = "analyser.disconnect" -> 2
    [] x = "gainNode.disconnect" -> 3
    [] x = "close" -> 4

Ascending(cs) == \A i, j \in DOMAIN cs : i < j => CallRank(cs[i]) < CallRank(cs[j])

Called(cs, x) == \E i \in DOMAIN cs : cs[i] = x

\* C9: every cleanupAudioContext call disconnects the source, then the
\* analyser, then the gain node (each one that exists), closes the context
\* only after them, and calls close() only on a context whose state is not
\* "closed".
C9_TeardownOrder ==
  [][lastOp'.op = "cleanupAudioContext" =>
        /\ Ascending(lastOp'.calls)
        /\ (source # NoNode) = Called(lastOp'.calls, "source.disconnect")
        /\ (analyser # NoNode) = Called(lastOp'.calls, "analyser.disconnect")
        /\ (gainNode # NoNode) = Called(lastOp'.calls, "gainNode.disconnect")
        /\ \A x \in edges' : x.from \notin {source, analyser, gainNode}
        /\ Called(lastOp'.calls, "close") =>
             (audioContext # NoCtx /\ ctxState[audioContext] # "closed")]_vars

\* C9 witness: a call that made all four platform calls.
C9_Witness ==
  /\ lastOp.op = "cleanupAudioContext"
  /\ Len(lastOp.calls) = 4

\* C9 witness of the guarded case: a call that met a closed context and
\* did not close it again.
C9_WitnessClosed ==
  /\ lastOp.op = "cleanupAudioContext"
  /\ audioContext # NoCtx /\ ctxState[audioContext] = "closed"
  /\ ~Called(lastOp.calls, "close")

NoDraw(ev) == \A i \in DOMAIN ev : ev[i] \notin VisTypes \cup {"sample"}

C4_NoRenderBeforeFirstFrame ==
  (vis.started /\ ~vis.isPlaying /\ ~vis.fired) => ~vis.drawn

C2_TapStaysConnected ==
  (player.mounted /\ player.sourceRef) =>
    {"source>analyser", "analyser>destination"} \subseteq player.edges

\* C10: after the component is unmounted its graph is disconnected and the
\* context it created is closed.
C10_UnmountReleases ==
  ~player.mounted =>
    (player.edges = {} /\ player.ctxState \in {"none", "closed"})

\* C11: as long as the user has not asked for playback, the AudioPlayer has
\* created no audio context.
C11_NoContextBeforePlay ==
  (player.mounted /\ ~player.playRequested) =>
    (~player.audioContextRef /\ player.ctxState = "none")

\* C13: after the element has reported an error or a play() request was
\* rejected, and until the user asks for playback again, the playing flag is
\* false and no animation frame is scheduled.
C13_StoppedAfterFailure ==
  (player.mounted /\ player.failed) =>
    (~player.isPlaying /\ player.animationRef = 0)

\* C14: the user-visible error is set only by a failure of media load or
\* play, never by a failure of graph construction, binding or resume.
C14_OnlyPlaybackErrorsShown ==
  player.error # "none" => player.cause \in {"load", "play"}

\* C15: an error notification that is displayed is eventually cleared (or
\* the component is gone) without any user action.
C15_ErrorEventuallyCleared ==
  (player.mounted /\ player.error # "none") ~>
    (player.error = "none" \/ ~player.mounted)

\* C12: once a play or track-load request has initialised audio (App holds
\* the analyser), the connect effect has tapped App's element.
C12_AppTapsElement ==
  (app.mounted /\ app.analyzer) => app.sourceRef

\* C16: when the platform rejects a resume() promise the context state is
\* left as it was and the rejection is handled: resumeAudioContext reports
\* false, and no caller of resume() leaves the rejection unhandled.
C16_ResumeRejectionHandled ==
  [][lastOp'.op = "resumeRejected" =>
        (ctxState' = ctxState /\ lastOp'.ret = "false")]_vars

\* The resume() promise that the step settles
Settled == pendingResume \ pendingResume'

\* C17 (as amended): a resumeAudioContext call on a suspended context calls
\* resume() on it and changes nothing else; when the platform resolves the
\* promise the context is running and the call reports true; when the
\* platform rejects it the context and the module state are as before and
\* the call reports false. On a context that is not suspended the call
\* changes nothing and reports true.
C17_ResumeRuns ==
  [][/\ lastOp'.op = "resumeAudioContext" =>
          /\ UNCHANGED <<moduleState, ctxState, edges, taps>>
          /\ IF audioContext # NoCtx /\ ctxState[audioContext] = "suspended"
             THEN /\ lastOp'.calls = <<"resume">>
                  /\ \E p \in pendingResume' : p.ctx = audioContext
             ELSE /\ lastOp'.calls = <<>>
                  /\ lastOp'.ret = "true"
                  /\ UNCHANGED pendingResume
     /\ (lastOp'.op = "resumeResolved" /\ lastOp'.ret = "true") =>
          /\ UNCHANGED moduleState
          /\ \A p \in Settled : ctxState'[p.ctx] = "running"
     /\ (lastOp'.op = "resumeRejected" /\ lastOp'.ret = "false") =>
          UNCHANGED <<moduleState, ctxState>>]_vars

\* C17 as stated: every resumeAudioContext call on a suspended context ends
\* with the context running.
C17_AlwaysRuns ==
  [][(lastOp'.op \in {"resumeResolved", "resumeRejected"}
        /\ lastOp'.ret \in {"true", "false"}) =>
       \A p \in Settled : ctxState'[p.ctx] = "running"]_vars

\* C17 witness: a resumeAudioContext call on the suspended context of a
\* bound graph has been resolved and the context runs.
C17_Witness ==
  /\ lastOp.op = "resumeResolved" /\ lastOp.ret = "true"
  /\ source # NoNode
  /\ audioContext # NoCtx /\ ctxState[audioContext] = "running"

\* C18: on a host without an AudioContext constructor every
\* initializeAudioContext call returns the failure result without throwing,
\* no context, analyser, gain node, source or buffer exists, and sampling
\* returns null.
C18_UnsupportedPlatform ==
  ~hasAudioContext =>
    /\ lastOp.op = "initializeAudioContext" => (lastOp.ret = "failed" /\ ~lastOp.threw)
    /\ Clean
    /\ nextCtx = 1 /\ nextId = 1 /\ taps = {} /\ edges = {}
    /\ lastOp.op \in Sampling => lastOp.ret = "null"

\* C18 witness: initializeAudioContext(e1) has just failed on such a host.
C18_Witness ==
  /\ ~hasAudioContext
  /\ lastOp.op = "initializeAudioContext" /\ lastOp.el = "e1"
  /\ lastOp.ret = "failed"

\* C19: an initializeAudioContext(el) call made while el is the bound
\* element leaves context, analyser, gain node, source and buffer as they
\* were.
C19_SecondInitNoOp ==
  [][(lastOp'.op = "initializeAudioContext" /\ lastOp'.el # NoElem
        /\ source # NoNode /\ source.elem = lastOp'.el
        /\ audioContext # NoCtx /\ analyser # NoNode /\ gainNode # NoNode
        /\ dataArray # NoBuf) =>
       UNCHANGED moduleState]_vars

\* C20: a context that is closed stays closed; a source is bound only when
\* context and analyser exist; and no operation binds a source on, resumes
\* or samples from a context on which close() has been called.
C20_Lifecycle ==
  [][/\ \A c \in DOMAIN ctxState : ctxState[c] = "closed" => ctxState'[c] = "closed"
     /\ (source' # source /\ source' # NoNode) =>
          /\ audioContext' # NoCtx /\ analyser' # NoNode
          /\ source'.ctx \notin closing
     /\ lastOp'.calls = <<"resume">> => audioContext \notin closing
     /\ (lastOp'.op \in Sampling /\ lastOp'.ret = "data") =>
          analyser.ctx \notin closing]_vars

\* The positions of the draw calls in a list of events
Draws(ev) == {i \in DOMAIN ev : ev[i] \in VisTypes}

\* C21: in every operation of the Visualizer, each draw call comes after a
\* read of the analyser made in the same operation, and draws from the
\* buffer that this read filled.
C21_SampleBeforeDraw ==
  /\ \A i \in Draws(vis.events) : \E j \in 1 .. i - 1 : vis.events[j] = "sample"
  /\ ~vis.stale
  /\ Draws(vis.events) # {} => vis.fresh

\* C21 witness: a frame callback has sampled and then drawn the circular
\* view.
C21_Witness ==
  /\ vis.op = "frame" /\ vis.fresh
  /\ Len(vis.events) >= 2
  /\ vis.events[1] = "sample" /\ vis.events[2] = "circular"

\* The indices a loop `for (i = from; i < to; i++)` visits
Indices(r) == r.from .. r.to - 1

\* The sum of the samples at the indices idx, counted value by value
RECURSIVE Total(_, _, _)
Total(data, idx, vals) ==
  IF vals = {} THEN 0
  ELSE LET v == CHOOSE x \in vals : TRUE
       IN v * Cardinality({i \in idx : data[i] = v}) + Total(data, idx, vals \ {v})

TotalOver(data, idx) == Total(data, idx, {data[i] : i \in idx})

\* The range each level function is specified to average, for n bins
SpecifiedRange(name, n) ==
  CASE name = "getBassFrequency" -> [from |-> 0, to |-> n \div 8]
    [] name = "getMidFrequency" -> [from |-> n \div 8, to |-> (5 * n) \div 8]
    [] name = "getTrebleFrequency" -> [from |-> (5 * n) \div 8, to |-> n]
    [] name = "getAverageFrequency" -> [from |-> 0, to |-> n]

BandOps == {"getBassFrequency", "getMidFrequency", "getTrebleFrequency"}

LevelOps == BandOps \cup {"getAverageFrequency"}

\* C22: each band function loops over its specified range, [0, N/8),
\* [N/8, 5N/8) or [5N/8, N) with floored bounds, and for the length of the
\* current snapshot the three ranges are pairwise disjoint and cover the
\* indices 0..N-1.
C22_BandsPartition ==
  calc.ready =>
    LET n == Length(calc.data)
        bass == Indices(BassRange(n))
        mid == Indices(MidRange(n))
        treble == Indices(TrebleRange(n))
    IN /\ calc.op \in BandOps => calc.range = SpecifiedRange(calc.op, n)
       /\ bass \cap mid = {} /\ bass \cap treble = {} /\ mid \cap treble = {}
       /\ bass \cup mid \cup treble = 0 .. n - 1

\* C22 witness: the mid band was computed on a snapshot of 128 bins, over
\* the indices 16..79.
C22_Witness ==
  /\ calc.ready /\ calc.op = "getMidFrequency"
  /\ Length(calc.data) = 128
  /\ calc.range = [from |-> 16, to |-> 80]

\* C23: after a level function ran on a snapshot, its result is the sum of
\* the samples of its range divided by the number of samples of the range,
\* the range is not empty, and the result lies between 0 and 255.
C23_LevelsAreMeans ==
  (calc.ready /\ calc.op \in LevelOps) =>
    LET idx == Indices(SpecifiedRange(calc.op, Length(calc.data)))
    IN /\ idx # {}
       /\ calc.level.n = Cardinality(idx)
       /\ calc.level.sum = TotalOver(calc.data, idx)
       /\ 0 <= calc.level.sum
       /\ calc.level.sum <= 255 * calc.level.n

\* C23 witness: the treble level of a snapshot of 128 bins that is silent
\* but for one bin at 200 in the treble range: 200 / 48.
C23_Witness ==
  /\ calc.ready /\ calc.op = "getTrebleFrequency"
  /\ calc.level = [sum |-> 200, n |-> 48]

\* C24: whatever was called before, detectBeat compares against the
\* threshold passed, or 200 when none is passed, and returns true exactly
\* when the module is ready and the mean of the bass range of the current
\* snapshot is strictly greater than that threshold.
C24_BeatIffAboveThreshold ==
  calc.op = "detectBeat" =>
    LET idx == Indices(SpecifiedRange("getBassFrequency", Length(calc.data)))
    IN /\ calc.threshold = IF calc.arg = <<>> THEN 200 ELSE calc.arg[1]
       /\ calc.beat <=>
            /\ calc.ready
            /\ TotalOver(calc.data, idx) > calc.threshold * Cardinality(idx)

\* C24 witness: detectBeat was called without a threshold on a snapshot
\* whose bass mean is exactly 200, after an earlier snapshot, and returned
\* false.
C24_Witness ==
  /\ calc.ready /\ calc.op = "detectBeat" /\ calc.arg = <<>>
  /\ calc.updates > 0
  /\ \A i \in DOMAIN calc.data : calc.data[i] = 200
  /\ ~calc.beat

\* C25: when detectBeat returned true at a threshold, detectBeat on the
\* same snapshot is true at every smaller threshold.
C25_MonotonicInThreshold ==
  (calc.op = "detectBeat" /\ calc.beat) =>
    \A t \in Thresholds : t < calc.threshold => BeatOn(calc.data, t)

\* C25 witness: detectBeat returned true at the threshold 254, the largest
\* one followed.
C25_Witness ==
  /\ calc.op = "detectBeat" /\ calc.beat
  /\ calc.threshold = 254

\* C26: a setVolume call that found a gain node has set its gain to the
\* level passed, clamped to 0..1 (0 below 0, 1 above 1), from the current
\* time on; a call that found none has set nothing and raised nothing.
C26_VolumeClamped ==
  volume.arg # <<>> =>
    LET level == volume.arg[1]
        clamped == IF level < 0 THEN 0 ELSE IF level > 10 THEN 10 ELSE level
    IN IF volume.node = NoNode
       THEN volume.gain = <<>> /\ ~volume.caught
       ELSE volume.gain = <<clamped>>

\* C27: drawBars draws one bar per bin, each of height
\* (sample / 255) * height * sensitivity; a snapshot of zeros gives bars of
\* height zero, and a snapshot of 255s with sensitivity 1 gives bars of the
\* height of the surface.
C27_BarHeights ==
  calc.op = "drawBars" =>
    LET s == calc.sensitivity
        bar(i) == calc.bars[i]
        sample(i) == calc.data[i - 1]
    IN /\ Len(calc.bars) = Length(calc.data)
       /\ \A i \in 1 .. Len(calc.bars) :
            /\ bar(i).n # 0
            /\ bar(i).sum * 255 * s.n = sample(i) * calc.height * s.sum * bar(i).n
            /\ sample(i) = 0 => bar(i).sum = 0
            /\ (sample(i) = 255 /\ s.sum = s.n) => bar(i).sum = calc.height * bar(i).n

\* C27 witness: a snapshot of 128 bins at 255 was drawn with sensitivity 1
\* on a surface 400 high.
C27_Witness ==
  /\ calc.op = "drawBars"
  /\ Len(calc.bars) = 128
  /\ \A i \in DOMAIN calc.data : calc.data[i] = 255
  /\ calc.sensitivity = Quotient(1, 1)
  /\ calc.height = 400
  /\ \A i \in 1 .. 128 : calc.bars[i].sum = 400 * calc.bars[i].n

\* C28: whenever an operation ends with the view mounted, playback active
\* and the graph initialised, exactly one tick is scheduled, and a tick that
\* ran in that situation has sampled, rendered and scheduled its successor;
\* a tick that finds a ref missing does nothing and raises nothing.
C28_LoopKeepsRunning ==
  /\ (vis.mounted /\ vis.isPlaying /\ vis.isInitialized) =>
       /\ Cardinality(vis.frames) = 1
       /\ vis.op \in {"frame", "play", "type", "style"} =>
            (Len(vis.events) = 3 /\ vis.events[3] = "schedule")
  /\ (vis.op = "frame" /\ (vis.analyserRef = NoCtx \/ ~vis.dataArrayRef \/ ~vis.mounted)) =>
       vis.events = <<>>

\* C28 witness: the loop has run a tick after a change of visualizer type
\* and goes on.
C28_Witness ==
  /\ vis.op = "frame" /\ vis.isPlaying /\ vis.isInitialized
  /\ vis.visualizerType = "waveform"
  /\ Cardinality(vis.frames) = 1 /\ vis.animationRef > 1

\* C29: at most one animation frame is pending at any moment.
C29_OneFramePending ==
  Cardinality(vis.frames) <= 1

\* C29 witness: a change of colour or sensitivity during playback has
\* replaced the loop: the old frame is gone, one new frame is pending.
C29_Witness ==
  /\ vis.op = "style" /\ vis.isPlaying /\ vis.fired
  /\ Cardinality(vis.frames) = 1

\* C30: a mounted Visualizer has created at most one audio context, and no
\* context that it no longer refers to is left unclosed.
C30_OneContext ==
  /\ Len(vis.ctxState) <= 1
  /\ \A c \in DOMAIN vis.ctxState :
       c # vis.audioContextRef => vis.ctxState[c] = "closed"


\* C31: in every state of the graph module, under every interleaving of
\* its calls with the suspended clean-up, each of analyser, gain node and
\* source that is present was created on the context the module holds, and
\* that context is present and neither closed nor being closed.
C31_ModuleConsistent ==
  \A n \in {analyser, gainNode, source} :
    n # NoNode =>
      /\ audioContext # NoCtx
      /\ n.ctx = audioContext
      /\ ctxState[audioContext] # "closed"
      /\ audioContext \notin closing


\* C32: once cleanupAudioContext has been called and has finished, with
\* nothing called since, no media source node the module ever created has
\* a connection to an analyser.
C32_NoSourceLeftConnected ==
  (cleanRun >= 1 /\ pendingClose = {}) =>
    ~\E e \in edges : e.from \in taps /\ e.to.kind = "analyser"


\* C33: in every state of the mounted AudioPlayer in which no play()
\* promise is pending, isPlaying is true only if the element is playing;
\* in particular right after playNext, playPrevious or a track selection.
C33_PlayingFlagAgrees ==
  (player.mounted /\ ~\E q \in player.pending : q.of = "play") =>
    (player.isPlaying => player.elPlaying)


\* The steps in which the handler `name` of the AudioPlayer runs
PlayerStep(name) == player.mounted /\ player' # player /\ player'.op = name

\* What handleEnded does in its three cases, the advance being to `next`
EndedAs(next) ==
  PlayerStep("handleEnded") =>
    IF player.repeatMode = "one"
    THEN /\ player'.currentTrack = player.currentTrack
         /\ player'.isPlaying
         /\ Promise("play", "handleEnded", FALSE) \in player'.pending
    ELSE IF player.repeatMode = "all" \/ player.currentTrack < NumTracks - 1
         THEN /\ player'.currentTrack \in next
              /\ player'.timers = player.timers + 1
         ELSE /\ player'.currentTrack = player.currentTrack
              /\ ~player'.isPlaying /\ ~player'.elPlaying
              /\ player'.timers = player.timers
              /\ player'.pending = player.pending

\* The timer handleEnded set calls play() and sets isPlaying
TimerPlays ==
  PlayerStep("timer") =>
    /\ player'.isPlaying
    /\ Promise("play", "handleEnded", FALSE) \in player'.pending
    /\ player'.currentTrack = player.currentTrack

\* The track after the current one, the first track following the last
Successor == (player.currentTrack + 1) % NumTracks

\* C34 as stated: when a track ends, repeat 'one' restarts the same track
\* with isPlaying true; repeat 'all', or a track that is not the last,
\* advances to the following track (from the last to the first) and
\* playback of it is started; repeat 'none' on the last track stops with
\* isPlaying false and the same track index.
C34_EndedAdvances == [][EndedAs({Successor}) /\ TimerPlays]_vars

\* C34: the same, the advance being to the following track with shuffle
\* off and to any track of the list with shuffle on.
C34_EndedAdvancesUnlessShuffled ==
  [][EndedAs(IF player.isShuffled THEN 0 .. NumTracks - 1 ELSE {Successor})
     /\ TimerPlays]_vars

\* C34 witness: with repeat 'all' and shuffle off the last track has ended,
\* the player is on the first track and the timer that starts it is set.
C34_Witness ==
  /\ player.mounted /\ player.op = "handleEnded"
  /\ player.repeatMode = "all" /\ ~player.isShuffled
  /\ player.currentTrack = 0 /\ player.timers = 1
  /\ ~player.isPlaying


\* C35: in every state of the AudioPlayer, whatever was pressed and
\* whichever tracks ended, currentTrack is an index of the track list; and
\* with shuffle off, playPrevious pressed right after playNext puts back the
\* track playNext started from, and playNext and playPrevious step by one
\* with wrap-around at both ends.
C35_TrackIndexValid ==
  [][/\ player.mounted => player'.currentTrack \in 0 .. NumTracks - 1
     /\ (PlayerStep("playNext") /\ ~player.isShuffled) =>
          /\ player'.currentTrack = (player.currentTrack + 1) % NumTracks
          /\ PreviousTrack(player') = player.currentTrack
     /\ PlayerStep("playPrevious") =>
          /\ player'.currentTrack = (player.currentTrack + NumTracks - 1) % NumTracks
          /\ ~player.isShuffled => NextTrack(player', 0) = player.currentTrack]_vars

\* C35 witness: with shuffle off playNext has wrapped from the last track
\* to the first, from where playPrevious leads back to the last.
C35_Witness ==
  /\ player.mounted /\ player.op = "playNext"
  /\ ~player.isShuffled
  /\ player.currentTrack = 0
  /\ PreviousTrack(player) = NumTracks - 1


VolumeOps == {"handleVolumeChange", "toggleMute", "handleLoadedMetadata"}

\* C36: after a volume-slider change, a mute toggle or a loaded-metadata
\* event, the volume of the element is 0 when isMuted and the stored volume
\* otherwise; and after two mute toggles in a row the element has the
\* volume it had before the first.
C36_VolumeFollowsMute ==
  (player.mounted /\ player.op \in VolumeOps) =>
    /\ player.elVolume = IF player.isMuted THEN 0 ELSE player.volume
    /\ Len(player.muteTrail) = 2 => player.elVolume = player.muteTrail[1]

====
